---------------------------- MODULE Spec2Model ----------------------------
(***************************************************************************)
(* A model of the user code of the WaterTank simulation: the stepping      *)
(* action and the DOM sensitive detector (SpecStep), the run and event     *)
(* actions with the analysis output (SpecRun), the multithreaded summary   *)
(* counters and accumulables (SpecMT), and the primary generator with its  *)
(* macro commands (SpecGen).  Energies, probabilities and lengths are      *)
(* scaled integers: probabilities in percent, lengths in mm, energies in   *)
(* the unit named beside each definition.                                  *)
(***************************************************************************)
EXTENDS Integers, Sequences, FiniteSets, TLC

\* ------------------------------------------------------------------ bounds
\* Steps delivered to the callbacks within one event (SpecStep).
MaxSteps == 2
\* Largest energy deposit of one step.
MaxDep == 2
\* Track IDs of an event are 1..MaxTracks.
MaxTracks == 2
\* Largest number of events asked of one run.
MaxEvents == 2

\* --------------------------------------------------------------- constants
\* Number of tabulated photon energies of every optical property.
nOptPhotons == 6

NULL == "NULL"
Min(a, b) == IF a <= b THEN a ELSE b
Max(a, b) == IF a >= b THEN a ELSE b

VARIABLES
  \* ---- SpecStep: one event's tracking
  pc,                 \* whose turn: "track" (toolkit), "sd", "user"
  step,               \* the G4Step being delivered (NULL before the first)
  stepsDone,          \* steps delivered so far in this event
  fScoringVolume,     \* WaterTankSteppingAction::fScoringVolume (lazy)
  fEdep,              \* WaterTankEventAction::fEdep
  fHitsCollection,    \* WaterTankDOMSD::fHitsCollection
  sdReturn,           \* what the last ProcessHits returned
  killed,             \* tracks whose status is fStopAndKill
  surfaceTable,       \* EFFICIENCY of the water-DOM border surface, percent
  \* ---- SpecRun: runs and events of one thread
  runPhase,           \* "idle", or "running" between Begin- and EndOfRunAction
  nToProcess,         \* events asked of the current run (/run/beamOn n)
  nofEvents,          \* G4Run::GetNumberOfEvent() of the current run
  evPhase,            \* "none", "prepared", "open": where the event loop is
  hasHCE,             \* whether the current event carries a G4HCofThisEvent
  hasPrimary,         \* whether the current event has a primary vertex
  fDOMHCID,           \* WaterTankEventAction::fDOMHCID (-1 until looked up)
  fDetectionCount,    \* WaterTankEventAction::fDetectionCount
  raEdep,             \* WaterTankRunAction::fEdep (accumulable)
  raEdep2,            \* WaterTankRunAction::fEdep2 (accumulable)
  printed,            \* what the last EndOfRunAction printed: <<events, total>>
  fileOpen,           \* whether the analysis manager holds an open file
  fileLog,            \* the file operations of the latest run
  eventNtuple,        \* rows of ntuple 0 ("event") not yet reset
  domhitsNtuple,      \* rows of ntuple 1 ("domhits") not yet reset
  \* ---- SpecMT: a multithreaded run (master and worker threads)
  tpc,                \* where each thread is
  eventsLeft,         \* events of the run not yet given to a worker
  cur,                \* the event each worker is finishing
  accEdep,            \* WaterTankRunAction::fEdep accumulable, per thread
  runEvents,          \* G4Run::GetNumberOfEvent() of each thread's run
  mtPrinted,          \* what the master's EndOfRunAction printed last
  fRunActive,         \* Analysis::fRunActive
  fMutex,             \* Analysis::fMutex: NULL or the thread holding it
  tmp,                \* counter values a worker has read and not yet stored
  fEventsProcessed,   \* Analysis::fEventsProcessed
  fSumNPE,            \* Analysis::fSumNPE
  fSumFirstHit,       \* Analysis::fSumFirstHit
  fEventsWithHits,    \* Analysis::fEventsWithHits
  mergeCount,         \* history: merges each worker did in the current run
  deposited,          \* history: sum of the AddEdep arguments of the run
  callsDone,          \* history: RecordEventSummary calls completed in the run
  sumNPEGiven,        \* history: sum of the nPE arguments of those calls
  \* ---- SpecGen: the primary generator action and its commands
  fMode,              \* WaterTankPrimaryGeneratorAction::fMode
  fMuonEnergy,        \* fMuonEnergy, in MeV
  fMuonDirection,     \* fMuonDirection
  fMuonPosition,      \* fMuonPosition, in mm
  fUseCustomPosition, \* fUseCustomPosition
  fEnvelopeBox,       \* whether fEnvelopeBox caches the world box
  fCRYSetupFile,      \* fCRYSetupFile
  fCRYGenerator,      \* fCRYGenerator: "nullptr" or "object"
  fInitialized,       \* WaterTankCRYPrimaryGenerator::fInitialized of the object
  setupStatus,        \* how SetupCRY went for the object: "none", "ok", ...
  world,              \* what the volume store holds under "World"
  vertices,           \* primary vertices of the event generated last
  aborted,            \* the program was aborted by a fatal exception
  lastOp,             \* history: the operation performed last
  lastPath,           \* history: the branch the last GeneratePrimaries took
  raised,             \* history: exceptions raised by the last operation
  setupRan,           \* history: whether the last operation ran SetupCRY
  cmdUseCRY,          \* history: argument of the latest useCRY command
  cmdEnergy,          \* history: argument of the latest muon/energy command
  cmdDirection,       \* history: argument of the latest muon/direction command
  cmdPosition,        \* history: argument of the latest muon/position command
  \* ---- the event's primary and the scintillator sensitive detector
  particleTime,       \* time of the event's primary particle, ns
  fScintHitsCollection, \* WaterTankScintillatorSD::fHitsCollection
  fTrackBarHits,      \* WaterTankScintillatorSD::fTrackBarHits
  scintReturn,        \* what the last scintillator ProcessHits returned
  scintSeen           \* history: the steps the scintillator SD was given

runVars == <<runPhase, nToProcess, nofEvents, evPhase, hasHCE,
             hasPrimary, fDOMHCID, fDetectionCount, raEdep, raEdep2, printed,
             fileOpen, fileLog, eventNtuple, domhitsNtuple>>

mtVars == <<tpc, eventsLeft, cur, accEdep, runEvents, mtPrinted, fRunActive,
            fMutex, tmp, fEventsProcessed, fSumNPE, fSumFirstHit,
            fEventsWithHits, mergeCount, deposited, callsDone, sumNPEGiven>>

genVars == <<fMode, fMuonEnergy, fMuonDirection, fMuonPosition,
             fUseCustomPosition, fEnvelopeBox, fCRYSetupFile, fCRYGenerator,
             fInitialized, setupStatus, world, vertices, aborted, lastOp,
             lastPath, raised, setupRan, cmdUseCRY, cmdEnergy, cmdDirection,
             cmdPosition>>

stepVars == <<pc, step, stepsDone, fScoringVolume, fEdep, fHitsCollection,
              sdReturn, killed, surfaceTable>>

evtVars == <<particleTime, fScintHitsCollection, fTrackBarHits, scintReturn,
             scintSeen>>

vars == <<stepVars, runVars, mtVars, genVars, evtVars>>

\* ------------------------------------------------------------------ geometry
\* The placements a step point can be in.  A physical volume and its logical
\* volume carry the same name here.
Volumes == {"World", "Water", "DOM"}
\* GetScoringVolume(): the tank water.
ScoringVolume == "Water"
\* What ConstructSDandField binds on the DOM sensitive detector.
fDOMPhysicalVolume == "DOM"
fWaterPhysicalVolume == "Water"
fDOMOpticalSurfaceName == "DOMOpticalSurfaceBorder"
\* The logical volumes the DOM sensitive detector is attached to.
SensitiveVolumes == {"DOM", "Water"}

\* The EFFICIENCY column of the DOM optical surface, in percent, one value
\* per tabulated photon energy.
domEfficiency == <<22, 24, 25, 25, 23, 20>>
\* ProcessHits reads whatever table the surface carries: this second table
\* drives its p <= 0 and p >= 1 branches.
edgeEfficiency == <<0, 100, 130, -10, 22, 50>>
EfficiencyTables == {domEfficiency, edgeEfficiency}

\* Samples of G4UniformRand(), in percent.
USamples == {10, 22, 23, 90}

\* ------------------------------------------------------------------- steps
Optical == "opticalphoton"
Charged == "mu-"

\* A step: the track (id, particle, kinetic energy bin), the pre- and
\* post-step volumes, whether the post-step point is on a geometry boundary,
\* the post-step kinetic energy bin (0: not positive), the total energy
\* deposit (in units of 10 keV), the uniform sample ProcessHits would draw,
\* the global times of the pre- and post-step points in ns, and the copy
\* number of the pre-step touchable.
MkStep(t, part, pre, post, bnd, postKE, trackKE, dep, u, preTime, time, copyNo) ==
  [trackID |-> t, particle |-> part, pre |-> pre, post |-> post,
   boundary |-> bnd, postKE |-> postKE, trackKE |-> trackKE,
   edep |-> dep, u |-> u, preTime |-> preTime, time |-> time,
   copyNo |-> copyNo]

IsCrossing(s) ==
  s.particle = Optical /\ s.pre = "Water" /\ s.post = "DOM" /\ s.boundary

ChargedSteps ==
  { MkStep(t, Charged, pre, pre, FALSE, 1, 1, dep, 10, 4, 5, 0) :
      t \in 1..MaxTracks, pre \in Volumes, dep \in 0..MaxDep }

OpticalPlainSteps ==
  { s \in { MkStep(t, Optical, pre, post, bnd, 1, 1, dep, 10, 4, 5, 0) :
              t \in 1..MaxTracks, pre \in Volumes, post \in Volumes,
              bnd \in BOOLEAN, dep \in 0..1 } : ~IsCrossing(s) }

OpticalCrossingSteps ==
  { MkStep(t, Optical, "Water", "DOM", TRUE, ke[1], ke[2], dep, u, 4, 5, 0) :
      t \in 1..MaxTracks,
      ke \in ({0} \X (1..nOptPhotons)) \cup { <<e, e>> : e \in 1..nOptPhotons },
      dep \in 0..1, u \in USamples }

Steps == ChargedSteps \cup OpticalPlainSteps \cup OpticalCrossingSteps

\* ------------------------------------------------- WaterTankSteppingAction
\* EventAction::AddEdep.
AddEdep(e, edep) == e + edep

\* A stepping action that forgets to leave optical photons out.
SteppingEdep_CountsPhotons(s, e) ==
  IF s.pre # ScoringVolume THEN e ELSE AddEdep(e, s.edep)

\* The event total after UserSteppingAction has seen step s.
SteppingEdep(s, e) ==
  IF s.pre # ScoringVolume THEN e
  ELSE IF s.particle = Optical THEN e
  ELSE AddEdep(e, s.edep)

\* -------------------------------------------------------- WaterTankDOMSD
\* The photon energy ProcessHits works with.
PhotonEnergy(s) == IF s.postKE <= 0 THEN s.trackKE ELSE s.postKE

\* detectionProbability before the clamp: 1.0 unless the border surface
\* carries an EFFICIENCY table.
DetectionProbability(s, table) ==
  IF fDOMOpticalSurfaceName = "" THEN 100
  ELSE IF table = NULL THEN 100
  ELSE table[PhotonEnergy(s)]

\* An acceptance test that discards a sample equal to the efficiency.
Accepted_Strict(p, u) ==
  IF p <= 0 THEN FALSE
  ELSE LET q == Min(100, Max(0, p))
       IN  ~(q < 100 /\ u >= q)

\* Whether the acceptance test of ProcessHits lets the photon through.
Accepted(p, u) ==
  IF p <= 0 THEN FALSE
  ELSE LET q == Min(100, Max(0, p))
       IN  ~(q < 100 /\ u > q)

\* A sensitive detector without the test of the post-step status.
PassesGuards_NoBoundary(s, hc) ==
  /\ s.particle = Optical
  /\ fDOMPhysicalVolume # NULL /\ fWaterPhysicalVolume # NULL
  /\ s.pre # NULL /\ s.post # NULL
  /\ s.pre = fWaterPhysicalVolume /\ s.post = fDOMPhysicalVolume
  /\ hc # NULL

\* The steps that pass every early return before the acceptance test.
PassesGuards(s, hc) ==
  /\ s.particle = Optical
  /\ fDOMPhysicalVolume # NULL /\ fWaterPhysicalVolume # NULL
  /\ s.pre # NULL /\ s.post # NULL
  /\ s.pre = fWaterPhysicalVolume /\ s.post = fDOMPhysicalVolume
  /\ s.boundary
  /\ hc # NULL

MkHit(s) ==
  [trackID |-> s.trackID, energy |-> PhotonEnergy(s), time |-> s.time]

\* Whether ProcessHits records step s as a hit (and returns true).
Detected(s, hc, table) ==
  PassesGuards(s, hc) /\ Accepted(DetectionProbability(s, table), s.u)

\* What G4LogicalVolumeStore can hold under the name "World": the box the
\* detector construction builds, nothing, or a volume whose solid is no box.
Worlds == {"box", "missing", "notBox"}

\* The primary generator action as its constructor leaves it, lengths in mm
\* and energies in MeV (4 GeV, direction +z, automatic position).
GenConstructed ==
  /\ fMode = "SingleMuon"
  /\ fMuonEnergy = 4 * 1000
  /\ fMuonDirection = <<0, 0, 1>>
  /\ fMuonPosition = <<0, 0, 0>>
  /\ fUseCustomPosition = FALSE
  /\ fEnvelopeBox = FALSE
  /\ fCRYSetupFile = "cry_setup.file"
  /\ fCRYGenerator = "nullptr"
  /\ fInitialized = FALSE
  /\ setupStatus = "none"
  /\ vertices = <<>>
  /\ aborted = FALSE
  /\ lastOp = "none"
  /\ lastPath = "none"
  /\ raised = <<>>
  /\ setupRan = FALSE
  /\ cmdUseCRY = <<>>
  /\ cmdEnergy = <<>>
  /\ cmdDirection = <<>>
  /\ cmdPosition = <<>>

\* The generator untouched, in the program's own geometry.
GenIdle == GenConstructed /\ world = "box"

\* The worker threads of a multithreaded run.
Workers == {"w1", "w2"}

Threads == {"master"} \cup Workers

\* The threads, the accumulables and the Analysis singleton before any run.
MTIdle ==
  /\ tpc = [th \in Threads |-> "idle"]
  /\ eventsLeft = 0
  /\ cur = [w \in Workers |-> NULL]
  /\ accEdep = [th \in Threads |-> 0]
  /\ runEvents = [th \in Threads |-> 0]
  /\ mtPrinted = NULL
  /\ fRunActive = FALSE
  /\ fMutex = NULL
  /\ tmp = [w \in Workers |-> NULL]
  /\ fEventsProcessed = 0
  /\ fSumNPE = 0
  /\ fSumFirstHit = 0
  /\ fEventsWithHits = 0
  /\ mergeCount = [w \in Workers |-> 0]
  /\ deposited = 0
  /\ callsDone = 0
  /\ sumNPEGiven = 0

\* The scintillator sensitive detector as constructed, before any event.
EvtIdle ==
  /\ particleTime = 0
  /\ fScintHitsCollection = NULL
  /\ fTrackBarHits = <<>>
  /\ scintReturn = FALSE
  /\ scintSeen = {}

\* ------------------------------------------------------------ SpecStep
\* The run and event actions as constructed, before any run.
RunIdle ==
  /\ runPhase = "idle"
  /\ nToProcess = 0
  /\ nofEvents = 0
  /\ evPhase = "none"
  /\ hasHCE = FALSE
  /\ hasPrimary = FALSE
  /\ fDOMHCID = -1
  /\ fDetectionCount = 0
  /\ raEdep = 0
  /\ raEdep2 = 0
  /\ printed = NULL
  /\ fileOpen = FALSE
  /\ fileLog = <<>>
  /\ eventNtuple = <<>>
  /\ domhitsNtuple = <<>>

\* The state after BeginOfEventAction and WaterTankDOMSD::Initialize.
StepInit ==
  /\ EvtIdle
  /\ RunIdle
  /\ MTIdle
  /\ GenIdle
  /\ pc = "track"
  /\ step = NULL
  /\ stepsDone = 0
  /\ fScoringVolume = NULL
  /\ fEdep = 0
  /\ fHitsCollection = <<>>
  /\ sdReturn = FALSE
  /\ killed = {}
  /\ surfaceTable \in EfficiencyTables

\* The toolkit delivers the next step of a live track: to the sensitive
\* detector when the pre-step volume has one, then to the stepping action.
Track ==
  /\ pc = "track"
  /\ stepsDone < MaxSteps
  /\ \E s \in Steps :
       /\ s.trackID \notin killed
       /\ step' = s
       /\ pc' = IF s.pre \in SensitiveVolumes THEN "sd" ELSE "user"
  /\ stepsDone' = stepsDone + 1
  /\ UNCHANGED <<fScoringVolume, fEdep, fHitsCollection, sdReturn, killed,
                 surfaceTable>>
  /\ UNCHANGED runVars
  /\ UNCHANGED mtVars
  /\ UNCHANGED genVars
  /\ UNCHANGED evtVars

\* A ProcessHits that records the hit and lets the photon go on.
ProcessHits_NoKill ==
  /\ pc = "sd"
  /\ pc' = "user"
  /\ IF Detected(step, fHitsCollection, surfaceTable)
     THEN /\ fHitsCollection' = Append(fHitsCollection, MkHit(step))
          /\ sdReturn' = TRUE
     ELSE /\ sdReturn' = FALSE
          /\ UNCHANGED fHitsCollection
  /\ UNCHANGED <<step, stepsDone, fScoringVolume, fEdep, killed,
                 surfaceTable>>
  /\ UNCHANGED runVars
  /\ UNCHANGED mtVars
  /\ UNCHANGED genVars
  /\ UNCHANGED evtVars

\* WaterTankDOMSD::ProcessHits: a detected photon gets a hit and its track
\* is set to fStopAndKill in the same call.
ProcessHits ==
  /\ pc = "sd"
  /\ pc' = "user"
  /\ IF Detected(step, fHitsCollection, surfaceTable)
     THEN /\ fHitsCollection' = Append(fHitsCollection, MkHit(step))
          /\ killed' = killed \cup {step.trackID}
          /\ sdReturn' = TRUE
     ELSE /\ sdReturn' = FALSE
          /\ UNCHANGED <<fHitsCollection, killed>>
  /\ UNCHANGED <<step, stepsDone, fScoringVolume, fEdep, surfaceTable>>
  /\ UNCHANGED runVars
  /\ UNCHANGED mtVars
  /\ UNCHANGED genVars
  /\ UNCHANGED evtVars

UserSteppingAction ==
  /\ pc = "user"
  /\ pc' = "track"
  /\ fScoringVolume' = IF fScoringVolume = NULL THEN ScoringVolume
                       ELSE fScoringVolume
  /\ fEdep' = SteppingEdep(step, fEdep)
  /\ UNCHANGED <<step, stepsDone, fHitsCollection, sdReturn, killed,
                 surfaceTable>>
  /\ UNCHANGED runVars
  /\ UNCHANGED mtVars
  /\ UNCHANGED genVars
  /\ UNCHANGED evtVars

StepNext == Track \/ ProcessHits \/ UserSteppingAction

SpecStep == StepInit /\ [][StepNext]_vars

\* C1: a step handled by UserSteppingAction raises the event total fEdep by
\* exactly its energy deposit when its pre-step point is in the water scoring
\* volume and its track is no optical photon; every other step, and the
\* sensitive detector's ProcessHits, leave the total unchanged.
C1_EdepGrowsIffWaterNonOptical ==
  [][ /\ (pc = "user" /\ pc' = "track") =>
          fEdep' = fEdep + (IF step.pre = "Water" /\ step.particle # Optical
                            THEN step.edep ELSE 0)
      /\ (pc # "user") => fEdep' = fEdep ]_vars

\* An optical photon depositing energy in the water was left out of a total
\* that an earlier charged step had raised.
C1_Witness ==
  /\ pc = "track" /\ stepsDone >= 2
  /\ step.particle = Optical /\ step.pre = "Water" /\ step.edep > 0
  /\ fEdep > 0

\* C2: for an optical photon crossing the boundary from the water to the DOM,
\* with p the tabulated efficiency at the photon's energy and u the uniform
\* sample, ProcessHits keeps the hit iff p > 0 and (p >= 1 or u <= p), and
\* discards it otherwise.
C2_KeepIffSampleWithinEfficiency ==
  [][ (pc = "sd" /\ IsCrossing(step)) =>
        LET p == surfaceTable[PhotonEnergy(step)]
            u == step.u
        IN  IF p > 0 /\ (p >= 100 \/ u <= p)
            THEN Len(fHitsCollection') = Len(fHitsCollection) + 1 /\ sdReturn'
            ELSE fHitsCollection' = fHitsCollection /\ ~sdReturn' ]_vars

\* A crossing photon whose sample equals a tabulated efficiency below 1 was
\* kept.
C2_Witness ==
  /\ pc = "user" /\ IsCrossing(step) /\ sdReturn
  /\ surfaceTable[PhotonEnergy(step)] = 22 /\ step.u = 22
  /\ Len(fHitsCollection) > 0

C21_OneHitPerPhoton ==
  /\ \A i \in DOMAIN fHitsCollection :
        fHitsCollection[i].trackID \in killed
  /\ \A i, j \in DOMAIN fHitsCollection :
        i # j => fHitsCollection[i].trackID # fHitsCollection[j].trackID

\* Two photons were detected in the event, each with its own hit.
C21_Witness ==
  /\ Len(fHitsCollection) = 2
  /\ Cardinality(killed) = 2
  /\ pc = "user"
  /\ sdReturn

\* ------------------------------------------------------------ SpecRun
\* ------------------------------------------------ WaterTankScintillatorSD
\* The logical volumes ConstructSDandField attaches the scintillator
\* sensitive detector to.
ScintVolumes == {"ScintBarL0", "ScintBarL1"}
\* Bars placed in each layer; their copy numbers are 0 .. 11.
fScintBarsPerLayer == 12
\* fEnergyThreshold: 0.1 MeV, in units of 10 keV.
fEnergyThreshold == 10
\* A neutral particle other than the optical photon.
Neutral == "gamma"
\* G4ParticleDefinition::GetPDGEncoding and GetPDGCharge of the particles.
PDGEncoding(part) ==
  IF part = Charged THEN 13 ELSE IF part = Neutral THEN 22 ELSE -22
PDGCharge(pdgCode) == IF pdgCode = 13 THEN -1 ELSE 0

\* A sensitive detector that knows the bars of layer 0 only.
ScintLayer_OnlyL0(volumeName) ==
  IF volumeName = "ScintBarL0" THEN 0 ELSE -1

\* The layer ProcessHits reads off the name of the touchable's volume
\* (-1: a volume it does not know).
ScintLayer(volumeName) ==
  IF volumeName = "ScintBarL0" THEN 0
  ELSE IF volumeName = "ScintBarL1" THEN 1 ELSE -1

\* The key of fTrackBarHits: G4int key = trackID * 10000 + layer * 1000 +
\* barIndex, a 32-bit signed integer. The product overflows for track IDs
\* above 214748; the overflow is undefined in C++ and the build (no trapping
\* or sanitizer flags) computes it with the wrapping multiply and add of the
\* machine, so the key is the sum modulo 2^32 read as a signed value. It is
\* computed here on the two 16-bit halves of the track ID.
ScintKey(trackID, layer, barIndex) ==
  LET lo == 10000 * (trackID % 65536) + layer * 1000 + barIndex
      hi == (10000 * (trackID \div 65536) + (lo \div 65536)) % 65536
  IN  (IF hi >= 32768 THEN hi - 65536 ELSE hi) * 65536 + (lo % 65536)

\* The early returns of WaterTankScintillatorSD::ProcessHits before the
\* look-up of the key.
ScintPassesGuards(s) ==
  /\ s.particle # Optical
  /\ ~(s.edep < fEnergyThreshold)
  /\ ScintLayer(s.pre) # -1

\* A sensitive detector that records every step passing the guards.
ScintIsNew_Always(key, map) == TRUE

\* fTrackBarHits.find(key) == fTrackBarHits.end()
ScintIsNew(key, map) == key \notin DOMAIN map

\* The hit ProcessHits fills from the step.
MkScintHit(s) ==
  [time |-> s.preTime, edep |-> s.edep, layer |-> ScintLayer(s.pre),
   barIndex |-> s.copyNo, trackID |-> s.trackID,
   pdgCode |-> PDGEncoding(s.particle)]

\* WaterTankScintillatorSD::ProcessHits on step s.
ScintProcessHits(s) ==
  LET key == ScintKey(s.trackID, ScintLayer(s.pre), s.copyNo)
  IN  /\ IF ScintPassesGuards(s) /\ ScintIsNew(key, fTrackBarHits)
         THEN /\ fTrackBarHits' = (key :> s.preTime) @@ fTrackBarHits
              /\ fScintHitsCollection' =
                   Append(fScintHitsCollection, MkScintHit(s))
              /\ scintReturn' = TRUE
         ELSE /\ scintReturn' = FALSE
              /\ UNCHANGED <<fTrackBarHits, fScintHitsCollection>>
      /\ scintSeen' = scintSeen \cup {s}

\* An Initialize that allocates the collection and leaves the map alone.
ScintInitialize_KeepsMap ==
  /\ fScintHitsCollection' = <<>>
  /\ UNCHANGED fTrackBarHits
  /\ scintReturn' = FALSE
  /\ scintSeen' = {}

\* WaterTankScintillatorSD::Initialize: a fresh hits collection in the
\* event's container and an empty map.
ScintInitialize ==
  /\ fScintHitsCollection' = <<>>
  /\ fTrackBarHits' = <<>>
  /\ scintReturn' = FALSE
  /\ scintSeen' = {}

\* The hits collections registered with the SD manager, in order.
HitsCollections == <<"DOMHitsCollection", "ScintHitsCollection">>

\* One second in ns, the unit of the times here.
second == 1000000000
\* What CRYParticle::t() returns, in seconds: the time CRY has simulated so
\* far.  The particle gun of the single-muon mode keeps its time of 0.
CRYTimes == {0, 1}
\* The primary's particle time: SetParticleTime(cryParticle->t() * s).
ParticleTime(t) == t * second
\* Times of flight from the primary's start to the DOM, in ns.
FlightTimes == {5, 20}

\* The steps the event loop of SpecRun tracks, in an event whose primary
\* starts at t0 and has n DOM hits so far: the muon (track 1) depositing
\* energy in the water, and the next photon crossing into the DOM with a
\* sample below or above the efficiency.
RunSteps(t0, n) ==
  { MkStep(1, Charged, "Water", "Water", FALSE, 1, 1, 1, 10,
           t0 + 3, t0 + 4, 0) }
  \cup { MkStep(2 + n, Optical, "Water", "DOM", TRUE, 1, 1, 0, u,
                t0 + 4, t0 + 5, 0) : u \in {10, 90} }

\* The bars the steps of SpecEvt are in: volume name and copy number.
ScintBars ==
  {<<"ScintBarL0", 0>>, <<"ScintBarL0", fScintBarsPerLayer - 1>>,
   <<"ScintBarL1", 0>>}

\* The scintillator steps of SpecEvt, at time tm in an event with n DOM hits
\* so far: the muon (track 1) or a gamma (track 2) depositing less than the
\* threshold or the threshold in a bar, and the next optical photon
\* depositing the threshold.
ScintSteps(tm, n) ==
  { MkStep(td[1], td[2], bar[1], bar[1], FALSE, 1, 1, td[3], 10, tm, tm + 1,
           bar[2]) :
      td \in {<<1, Charged, fEnergyThreshold - 5>>,
              <<1, Charged, fEnergyThreshold>>,
              <<2, Neutral, fEnergyThreshold - 5>>,
              <<2, Neutral, fEnergyThreshold>>,
              <<3 + n, Optical, fEnergyThreshold>>},
      bar \in ScintBars }

\* The steps the event loop of SpecEvt tracks, k steps into an event whose
\* primary starts at t0 and has n DOM hits so far: the muon in the water,
\* the next photon reaching the DOM after either time of flight and
\* detected, and the scintillator steps.
EvtSteps(t0, n, k) ==
  { MkStep(1, Charged, "Water", "Water", FALSE, 1, 1, 1, 10,
           t0 + 3, t0 + 4, 0) }
  \cup { MkStep(3 + n, Optical, "Water", "DOM", TRUE, 1, 1, 0, 10,
                t0 + f - 1, t0 + f, 0) : f \in FlightTimes }
  \cup ScintSteps(t0 + k, n)

\* The actions as WaterTankActionInitialization::Build constructs them.
RunInit ==
  /\ EvtIdle
  /\ RunIdle
  /\ MTIdle
  /\ GenIdle
  /\ pc = "track"
  /\ step = NULL
  /\ stepsDone = 0
  /\ fScoringVolume = NULL
  /\ fEdep = 0
  /\ fHitsCollection = NULL
  /\ sdReturn = FALSE
  /\ killed = {}
  /\ surfaceTable = domEfficiency

\* A BeginOfRunAction that leaves the accumulables as the last run left them.
BeginOfRun_NoReset(n) ==
  /\ runPhase = "idle"
  /\ nToProcess' = n
  /\ runPhase' = "running"
  /\ nofEvents' = 0
  /\ fileLog' = <<"OpenFile">>
  /\ fileOpen' = TRUE
  /\ UNCHANGED <<evPhase, hasHCE, hasPrimary, fDOMHCID, fDetectionCount,
                 raEdep, raEdep2, printed, eventNtuple, domhitsNtuple>>
  /\ UNCHANGED stepVars
  /\ UNCHANGED mtVars
  /\ UNCHANGED genVars
  /\ UNCHANGED evtVars

\* BeginOfRunAction of a run of n events: opens the output file and resets
\* the accumulables.
BeginOfRun(n) ==
  /\ runPhase = "idle"
  /\ nToProcess' = n
  /\ runPhase' = "running"
  /\ nofEvents' = 0
  /\ fileLog' = <<"OpenFile">>
  /\ fileOpen' = TRUE
  /\ raEdep' = 0
  /\ raEdep2' = 0
  /\ UNCHANGED <<evPhase, hasHCE, hasPrimary, fDOMHCID, fDetectionCount,
                 printed, eventNtuple, domhitsNtuple>>
  /\ UNCHANGED stepVars
  /\ UNCHANGED mtVars
  /\ UNCHANGED genVars
  /\ UNCHANGED evtVars

\* /run/beamOn n, for any n the model allows.
BeginOfRunAction == \E n \in 0..MaxEvents : BeginOfRun(n)

\* The toolkit prepares the next event (with or without a primary vertex,
\* which starts at the generator's particle time); WaterTankDOMSD::Initialize
\* and WaterTankScintillatorSD::Initialize allocate fresh hits collections in
\* the event's container.
InitializeAt(times) ==
  /\ runPhase = "running"
  /\ evPhase = "none"
  /\ nofEvents < nToProcess
  /\ evPhase' = "prepared"
  /\ hasHCE' = TRUE
  /\ fHitsCollection' = <<>>
  /\ ScintInitialize
  /\ \E v \in BOOLEAN : hasPrimary' = v
  /\ \E t \in times : particleTime' = ParticleTime(t)
  /\ killed' = {}
  /\ stepsDone' = 0
  /\ UNCHANGED <<pc, step, fScoringVolume, fEdep, sdReturn, surfaceTable>>
  /\ UNCHANGED <<runPhase, nToProcess, nofEvents, fDOMHCID,
                 fDetectionCount, raEdep, raEdep2, printed, fileOpen, fileLog,
                 eventNtuple, domhitsNtuple>>
  /\ UNCHANGED mtVars
  /\ UNCHANGED genVars

\* The events of SpecRun come from the particle gun of the single-muon mode.
Initialize == InitializeAt({0})

BeginOfEventAction ==
  /\ evPhase = "prepared"
  /\ evPhase' = "open"
  /\ fEdep' = 0
  /\ fDetectionCount' = 0
  /\ UNCHANGED <<pc, step, stepsDone, fScoringVolume, fHitsCollection,
                 sdReturn, killed, surfaceTable>>
  /\ UNCHANGED <<runPhase, nToProcess, nofEvents, hasHCE,
                 hasPrimary, fDOMHCID, raEdep, raEdep2, printed, fileOpen,
                 fileLog, eventNtuple, domhitsNtuple>>
  /\ UNCHANGED mtVars
  /\ UNCHANGED genVars
  /\ UNCHANGED evtVars

\* One step of the event, taken through the ProcessHits of the sensitive
\* detector attached to the pre-step volume (when the event has sensitive
\* detectors and the volume has one) and then through UserSteppingAction.
TrackStepIn(S) ==
  /\ evPhase = "open"
  /\ stepsDone < MaxSteps
  /\ stepsDone' = stepsDone + 1
  /\ \E s \in S :
       /\ s.trackID \notin killed
       /\ IF hasHCE /\ s.pre \in SensitiveVolumes
             /\ Detected(s, fHitsCollection, surfaceTable)
          THEN /\ fHitsCollection' = Append(fHitsCollection, MkHit(s))
               /\ killed' = killed \cup {s.trackID}
               /\ sdReturn' = TRUE
          ELSE /\ sdReturn' = FALSE
               /\ UNCHANGED <<fHitsCollection, killed>>
       /\ IF hasHCE /\ s.pre \in ScintVolumes
          THEN ScintProcessHits(s)
          ELSE UNCHANGED <<fTrackBarHits, fScintHitsCollection, scintReturn,
                           scintSeen>>
       /\ fEdep' = SteppingEdep(s, fEdep)
  /\ fScoringVolume' = ScoringVolume
  /\ UNCHANGED <<pc, step, surfaceTable, particleTime>>
  /\ UNCHANGED runVars
  /\ UNCHANGED mtVars
  /\ UNCHANGED genVars

TrackStep == TrackStepIn(RunSteps(particleTime, Len(fHitsCollection)))

\* PhotonYield_per_GeV: the detection count over the primary's energy in
\* GeV (energies are in MeV here; the quotient is cut to an integer), or 0
\* when the energy is not positive.
PhotonYield(count, primaryEnergy) ==
  IF primaryEnergy > 0 THEN (count * 1000) \div primaryEnergy ELSE 0

\* Primary columns taken from the vertex that was added last.
PrimaryColumns_LastVertex(eventVertices, count) ==
  IF Len(eventVertices) > 0
  THEN LET primaryVertex == eventVertices[Len(eventVertices)]
       IN  [PrimaryPDG |-> primaryVertex.pdg,
            PrimaryEnergy |-> primaryVertex.energy,
            PrimaryPos |-> primaryVertex.position,
            PrimaryDir |-> primaryVertex.direction,
            PhotonYield |-> PhotonYield(count, primaryVertex.energy)]
  ELSE [PrimaryPDG |-> 0, PrimaryEnergy |-> 0, PrimaryPos |-> <<0, 0, 0>>,
        PrimaryDir |-> <<0, 0, 0>>, PhotonYield |-> 0]

\* The primary columns EndOfEventAction computes: zeros, overwritten from
\* event->GetPrimaryVertex(), the first vertex of the event, and its first
\* particle (every vertex of this program holds one particle) when the
\* event has a vertex.
PrimaryColumns(eventVertices, count) ==
  IF Len(eventVertices) > 0
  THEN LET primaryVertex == eventVertices[1]
       IN  [PrimaryPDG |-> primaryVertex.pdg,
            PrimaryEnergy |-> primaryVertex.energy,
            PrimaryPos |-> primaryVertex.position,
            PrimaryDir |-> primaryVertex.direction,
            PhotonYield |-> PhotonYield(count, primaryVertex.energy)]
  ELSE [PrimaryPDG |-> 0, PrimaryEnergy |-> 0, PrimaryPos |-> <<0, 0, 0>>,
        PrimaryDir |-> <<0, 0, 0>>, PhotonYield |-> 0]

\* The vertices of an event of the run specifications, which follow only
\* whether the gun of the constructed generator added its muon.
GunVertices(primary) ==
  IF primary
  THEN <<[by |-> "gun", pdg |-> 13, energy |-> 4 * 1000,
          direction |-> <<0, 0, 1>>, position |-> <<0, 0, 0>>]>>
  ELSE <<>>

\* The DOM hits collection EndOfEventAction finds in the event, if any.
DomHits(hce, id, hc) ==
  IF hce /\ id >= 0 /\ id < Len(HitsCollections) THEN hc ELSE NULL

\* An event action that skips the summary row of an event without DOM hits.
EventRowAdded_OnlyWithHits(nt, row, domHits) ==
  IF domHits = NULL \/ domHits = <<>> THEN nt ELSE Append(nt, row)

\* Ntuple 0 after the event's columns are filled and AddNtupleRow(0) runs.
EventRowAdded(nt, row, domHits) == Append(nt, row)

\* An event action whose loop over the hits starts at the second hit.
DomHitRows_SkipFirst(eventId, domHits) ==
  IF domHits = NULL THEN <<>>
  ELSE [i \in 1..(Len(domHits) - 1) |->
          [EventID |-> eventId, TrackID |-> domHits[i + 1].trackID,
           Time_ns |-> domHits[i + 1].time, Energy |-> domHits[i + 1].energy]]

\* The rows of ntuple 1 the event adds: one per DOM hit (the collection
\* holds no null hit: WaterTankDOMSD inserts only hits it has just built).
DomHitRows(eventId, domHits) ==
  IF domHits = NULL THEN <<>>
  ELSE [i \in 1..Len(domHits) |->
          [EventID |-> eventId, TrackID |-> domHits[i].trackID,
           Time_ns |-> domHits[i].time, Energy |-> domHits[i].energy]]

\* The earliest and the latest time of the hits from index i on, starting
\* from the values first and last: the loop of EndOfEventAction.
RECURSIVE EarliestTime(_, _, _)
EarliestTime(domHits, i, first) ==
  IF i > Len(domHits) THEN first
  ELSE EarliestTime(domHits, i + 1,
                    IF domHits[i].time < first THEN domHits[i].time ELSE first)
RECURSIVE LatestTime(_, _, _)
LatestTime(domHits, i, last) ==
  IF i > Len(domHits) THEN last
  ELSE LatestTime(domHits, i + 1,
                  IF domHits[i].time > last THEN domHits[i].time ELSE last)

\* firstPhotonTime and lastPhotonTime as EndOfEventAction leaves them, in ns:
\* they start at 1e9 and -1e9 and are -1 for an event without hits.
FirstPhotonTime(domHits, count) ==
  IF domHits # NULL /\ count > 0
  THEN EarliestTime(domHits, 1, 1000000000) ELSE -1
LastPhotonTime(domHits, count) ==
  IF domHits # NULL /\ count > 0
  THEN LatestTime(domHits, 1, -1000000000) ELSE -1

\* The ScintCoincidence column: 1 if both layers were hit, 0 otherwise.
ScintCoincidence(scintHits) ==
  IF scintHits # NULL
     /\ (\E i \in 1..Len(scintHits) : scintHits[i].layer = 0)
     /\ (\E i \in 1..Len(scintHits) : scintHits[i].layer = 1)
  THEN 1 ELSE 0

\* EndOfEventAction; the run then counts the event.
EndOfEventAction ==
  /\ evPhase = "open"
  /\ evPhase' = "none"
  /\ raEdep' = raEdep + fEdep
  /\ raEdep2' = raEdep2 + fEdep * fEdep
  /\ fDOMHCID' = IF hasHCE /\ fDOMHCID < 0 THEN 0 ELSE fDOMHCID
  /\ LET domHits == DomHits(hasHCE, fDOMHCID', fHitsCollection)
         count == IF domHits = NULL THEN 0 ELSE Len(domHits)
         row == [EventID |-> nofEvents, Edep |-> fEdep,
                 DOMHitCount |-> count,
                 PrimaryPDG |->
                   PrimaryColumns(GunVertices(hasPrimary), count).PrimaryPDG,
                 FirstPhotonTime_ns |-> FirstPhotonTime(domHits, count),
                 LastPhotonTime_ns |-> LastPhotonTime(domHits, count),
                 ScintCoincidence |->
                   ScintCoincidence(fScintHitsCollection)]
     IN  /\ fDetectionCount' = count
         /\ eventNtuple' = EventRowAdded(eventNtuple, row, domHits)
         /\ domhitsNtuple' = domhitsNtuple \o DomHitRows(nofEvents, domHits)
  /\ nofEvents' = nofEvents + 1
  /\ UNCHANGED <<runPhase, nToProcess, hasHCE, hasPrimary, printed,
                 fileOpen, fileLog>>
  /\ UNCHANGED stepVars
  /\ UNCHANGED mtVars
  /\ UNCHANGED genVars
  /\ UNCHANGED evtVars

\* EndOfRunAction, called once every event asked of the run is processed:
\* it returns at once for a run of no events, and otherwise prints the
\* average and has the analysis manager write and close the file (which
\* resets the ntuples).
EndOfRunAction ==
  /\ runPhase = "running"
  /\ evPhase = "none"
  /\ nofEvents = nToProcess
  /\ runPhase' = "idle"
  /\ IF nofEvents = 0
     THEN UNCHANGED <<printed, fileOpen, fileLog, eventNtuple, domhitsNtuple>>
     ELSE /\ printed' = <<nofEvents, raEdep>>
          /\ fileLog' = fileLog \o <<"Write", "CloseFile">>
          /\ fileOpen' = FALSE
          /\ eventNtuple' = <<>>
          /\ domhitsNtuple' = <<>>
  /\ UNCHANGED <<nToProcess, nofEvents, evPhase, hasHCE, hasPrimary,
                 fDOMHCID, fDetectionCount, raEdep, raEdep2>>
  /\ UNCHANGED stepVars
  /\ UNCHANGED mtVars
  /\ UNCHANGED genVars
  /\ UNCHANGED evtVars

RunNext ==
  \/ BeginOfRunAction
  \/ Initialize
  \/ BeginOfEventAction
  \/ TrackStep
  \/ EndOfEventAction
  \/ EndOfRunAction

SpecRun == RunInit /\ [][RunNext]_vars

\* The sum of the DOMHitCount column over the first n rows of ntuple 0.
RECURSIVE SumDOMHitCount(_)
SumDOMHitCount(n) ==
  IF n = 0 THEN 0 ELSE eventNtuple[n].DOMHitCount + SumDOMHitCount(n - 1)

\* The sum of the Edep column over the first n rows of ntuple 0: the
\* deposits of the events of the run so far.
RECURSIVE SumEdep(_)
SumEdep(n) ==
  IF n = 0 THEN 0 ELSE eventNtuple[n].Edep + SumEdep(n - 1)

\* The rows of ntuple 1 that carry an event's id.
DomHitRowsOf(eventId) ==
  { j \in 1..Len(domhitsNtuple) : domhitsNtuple[j].EventID = eventId }

\* C12: for every event of the run, the "domhits" ntuple holds as many rows
\* with the event's EventID as the DOMHitCount of the event's summary row
\* says, so the ntuple has as many rows as the DOMHitCount column sums to.
C12_DomHitRowsMatchDOMHitCount ==
  /\ \A i \in 1..Len(eventNtuple) :
        Cardinality(DomHitRowsOf(eventNtuple[i].EventID))
          = eventNtuple[i].DOMHitCount
  /\ Len(domhitsNtuple) = SumDOMHitCount(Len(eventNtuple))

\* A run whose first event had two DOM hits and whose second had none.
C12_Witness ==
  /\ Len(eventNtuple) = 2
  /\ eventNtuple[1].DOMHitCount = 2
  /\ eventNtuple[2].DOMHitCount = 0
  /\ Len(domhitsNtuple) = 2

\* The columns the constructor of WaterTankRunAction books for ntuple 0
\* ("event") and ntuple 1 ("domhits"), in order.
EventColumns ==
  <<"EventID", "Edep_GeV", "DOMHitCount", "PrimaryPDG", "PrimaryEnergy_GeV",
    "PrimaryX_cm", "PrimaryY_cm", "PrimaryZ_cm", "PrimaryDirX", "PrimaryDirY",
    "PrimaryDirZ", "PhotonYield_per_GeV", "FirstPhotonTime_ns",
    "LastPhotonTime_ns", "AvgPhotonWavelength_nm">>
DomhitsColumns ==
  <<"EventID", "TrackID", "ParentID", "Time_ns", "Energy_eV", "Wavelength_nm",
    "PosX_cm", "PosY_cm", "PosZ_cm", "DirX", "DirY", "DirZ">>

\* The branches the README's "Output Data Format" lists for the two trees.
READMEEventBranches ==
  {"EventID", "PrimaryEnergy_GeV", "PrimaryPDG", "PrimaryPosX_cm",
   "PrimaryPosY_cm", "PrimaryPosZ_cm", "PrimaryDirX", "PrimaryDirY",
   "PrimaryDirZ", "Edep_GeV", "DOMHitCount", "PhotonYield_per_GeV",
   "FirstPhotonTime_ns", "LastPhotonTime_ns", "AvgPhotonWavelength_nm"}
READMEDomhitsBranches ==
  {"EventID", "Time_ns", "Energy_eV", "Wavelength_nm", "PosX_cm", "PosY_cm",
   "PosZ_cm", "DirX", "DirY", "DirZ", "TrackID", "ParentID"}

\* The names in a sequence of columns.
Names(columns) == { columns[i] : i \in 1..Len(columns) }

\* C13: the file a run opens has an "event" ntuple of exactly the 15
\* branches the README lists, under the README's names, and a "domhits"
\* ntuple of exactly the 12 branches it lists.
C13_NtuplesHaveTheREADMEBranches ==
  fileOpen =>
    /\ Len(EventColumns) = 15
    /\ Names(EventColumns) = READMEEventBranches
    /\ Len(DomhitsColumns) = 12
    /\ Names(DomhitsColumns) = READMEDomhitsBranches

\* The types of the booked columns: CreateNtupleIColumn books an integer
\* column, CreateNtupleDColumn a double column.
EventColumnTypes ==
  <<"I", "D", "I", "I", "D", "D", "D", "D", "D", "D", "D", "D", "D", "D",
    "D">>
DomhitsColumnTypes ==
  <<"I", "I", "I", "D", "D", "D", "D", "D", "D", "D", "D", "D">>

\* The FillNtupleIColumn and FillNtupleDColumn calls of EndOfEventAction
\* before AddNtupleRow(0) and before each AddNtupleRow(1), in order, each
\* with the column index and the type it is given.
EventFills ==
  <<<<0, "I">>, <<1, "D">>, <<2, "I">>, <<3, "I">>, <<4, "D">>, <<5, "D">>,
    <<6, "D">>, <<7, "D">>, <<8, "D">>, <<9, "D">>, <<10, "D">>, <<11, "D">>,
    <<12, "D">>, <<13, "D">>, <<14, "D">>, <<15, "D">>, <<16, "D">>>>
DomhitsFills ==
  <<<<0, "I">>, <<1, "I">>, <<2, "I">>, <<3, "D">>, <<4, "D">>, <<5, "D">>,
    <<6, "D">>, <<7, "D">>, <<8, "D">>, <<9, "D">>, <<10, "D">>, <<11, "D">>>>

\* Every fill goes to a booked column of its type, and every booked column
\* gets a fill. Column indices count from 0.
FillsMatch(fills, types) ==
  /\ \A k \in DOMAIN fills :
        /\ fills[k][1] + 1 \in DOMAIN types
        /\ types[fills[k][1] + 1] = fills[k][2]
  /\ \A c \in DOMAIN types : \E k \in DOMAIN fills : fills[k][1] + 1 = c

\* C23: every column EndOfEventAction fills in the "event" and "domhits"
\* ntuples has an index and a type that the constructor of WaterTankRunAction
\* booked for that ntuple, and every booked column of an ntuple is filled
\* before its row is added.
C23_FillsMatchBooking ==
  /\ Len(eventNtuple) > 0 => FillsMatch(EventFills, EventColumnTypes)
  /\ Len(domhitsNtuple) > 0 => FillsMatch(DomhitsFills, DomhitsColumnTypes)

\* ------------------------------------------------------------ SpecEvt
\* Runs of one event each (/run/beamOn 1), with primaries of either
\* generator and steps in every sensitive volume.
EvtBeginOfRunAction == BeginOfRun(1)
EvtInitialize == InitializeAt(CRYTimes)
EvtTrackStep ==
  TrackStepIn(EvtSteps(particleTime, Len(fHitsCollection), stepsDone))

EvtNext ==
  \/ EvtBeginOfRunAction
  \/ EvtInitialize
  \/ BeginOfEventAction
  \/ EvtTrackStep
  \/ EndOfEventAction
  \/ EndOfRunAction

SpecEvt == RunInit /\ [][EvtNext]_vars

\* The arrival times of the DOM hits written for the event of a summary row.
ArrivalTimes(row) ==
  { domhitsNtuple[j].Time_ns :
      j \in { k \in 1..Len(domhitsNtuple) :
                domhitsNtuple[k].EventID = row.EventID } }

\* C11: in every summary row, FirstPhotonTime_ns is the minimum and
\* LastPhotonTime_ns the maximum of the arrival times of the event's DOM
\* hits, whatever the primary's particle time, and both are -1 for an event
\* without DOM hits.
C11_FirstAndLastAreMinAndMax ==
  \A i \in 1..Len(eventNtuple) :
    LET row == eventNtuple[i]
        times == ArrivalTimes(row)
    IN  IF times = {}
        THEN row.FirstPhotonTime_ns = -1 /\ row.LastPhotonTime_ns = -1
        ELSE /\ row.FirstPhotonTime_ns \in times
             /\ row.LastPhotonTime_ns \in times
             /\ \A x \in times : row.FirstPhotonTime_ns <= x
                                  /\ x <= row.LastPhotonTime_ns

\* The event has a scintillator hit in the bars of the named volume: the
\* scintillator sensitive detector was given a step there that it records.
HitInBarsOf(volumeName) ==
  \E s \in scintSeen :
    s.pre = volumeName /\ s.particle # Optical /\ s.edep >= fEnergyThreshold

StepsInBarOf(h) ==
  { s \in scintSeen :
      /\ s.trackID = h.trackID
      /\ s.pre = (IF h.layer = 0 THEN "ScintBarL0" ELSE "ScintBarL1")
      /\ s.copyNo = h.barIndex }

\* No two hits of the event's collection share track, layer and bar.
OneHitPerTrackAndBar ==
  \A i, j \in 1..Len(fScintHitsCollection) :
    LET a == fScintHitsCollection[i]
        b == fScintHitsCollection[j]
    IN  (a.trackID = b.trackID /\ a.layer = b.layer
         /\ a.barIndex = b.barIndex) => i = j

C17_HitOnlyForChargedAboveThreshold ==
  fScintHitsCollection # NULL =>
    \A i \in 1..Len(fScintHitsCollection) :
      LET h == fScintHitsCollection[i]
      IN  /\ PDGCharge(h.pdgCode) # 0
          /\ h.edep >= fEnergyThreshold
          /\ h.layer \in {0, 1}
          /\ \E s \in scintSeen :
                /\ s.pre \in {"ScintBarL0", "ScintBarL1"}
                /\ s.trackID = h.trackID /\ s.preTime = h.time

\* The event has begun (BeginOfEventAction returned) and no step was taken.
EventStart == evPhase = "open" /\ stepsDone = 0

\* C19: at the start of every event the per-event state is empty: the event
\* energy total and the detection count are 0, the DOM and scintillator hits
\* collections are new and empty, and the per-track-per-bar map of the
\* scintillator detector is empty, whatever an earlier event left behind.
C19_PerEventStateEmptyAtEventStart ==
  EventStart =>
     /\ fEdep = 0
     /\ fDetectionCount = 0
     /\ fHitsCollection = <<>>
     /\ fScintHitsCollection = <<>>
     /\ fTrackBarHits = <<>>

\* A later event starts after a run whose event deposited energy in the
\* water and was looked up for DOM hits.
C19_Witness ==
  /\ EventStart
  /\ printed # NULL
  /\ printed[2] > 0
  /\ fDOMHCID = 0

\* ------------------------------------------------------------ SpecKey
\* Events with many tracks: charged tracks with small and with large track
\* IDs cross the bars of the two scintillator layers.
KeyTrackIDs == {1, 2, 118970595, 268435457}
KeyBars == {<<"ScintBarL0", 0>>, <<"ScintBarL0", 8>>, <<"ScintBarL1", 0>>}
KeySteps(tm) ==
  { MkStep(t, Charged, bar[1], bar[1], FALSE, 1, 1, fEnergyThreshold, 10,
           tm, tm + 1, bar[2]) : t \in KeyTrackIDs, bar \in KeyBars }

KeyTrackStep == TrackStepIn(KeySteps(particleTime + stepsDone))

KeyNext ==
  \/ EvtBeginOfRunAction
  \/ Initialize
  \/ BeginOfEventAction
  \/ KeyTrackStep
  \/ EndOfEventAction
  \/ EndOfRunAction

SpecKey == RunInit /\ [][KeyNext]_vars

\* The (trackID, layer, barIndex) of a step in a scintillator bar.
Triple(s) == <<s.trackID, ScintLayer(s.pre), s.copyNo>>

\* C22: the key trackID*10000 + layer*1000 + barIndex, computed in 32-bit
\* signed arithmetic, differs for any two different triples (trackID, layer,
\* barIndex) with layer in {0,1}, barIndex in 0..11 and a positive 32-bit
\* track ID, so every step that passes the guards of ProcessHits has a hit
\* of its own track in its own bar.
C22_ScintKeyUnique ==
  /\ \A s1, s2 \in scintSeen :
        (ScintPassesGuards(s1) /\ ScintPassesGuards(s2)
           /\ Triple(s1) # Triple(s2)) =>
          ScintKey(s1.trackID, ScintLayer(s1.pre), s1.copyNo)
            # ScintKey(s2.trackID, ScintLayer(s2.pre), s2.copyNo)
  /\ \A s \in scintSeen :
        ScintPassesGuards(s) =>
          \E i \in DOMAIN fScintHitsCollection :
             /\ fScintHitsCollection[i].trackID = s.trackID
             /\ fScintHitsCollection[i].layer = ScintLayer(s.pre)
             /\ fScintHitsCollection[i].barIndex = s.copyNo

\* C20: the accumulables are reset in BeginOfRunAction and every event's
\* deposit is added once in EndOfEventAction, so in any sequence of runs an
\* EndOfRunAction that prints an average prints the sum of the deposits of
\* that run's events over that run's event count, with nothing of earlier
\* runs in it.
C20_AverageIsOfThisRunOnly ==
  [][ (runPhase = "running" /\ runPhase' = "idle" /\ nofEvents > 0) =>
        /\ printed'[1] = Len(eventNtuple)
        /\ printed'[2] = SumEdep(Len(eventNtuple)) ]_vars

\* A later run, after a run that printed a positive total, has processed
\* all its events with a different positive total and is about to print it.
C20_Witness ==
  /\ printed # NULL
  /\ printed[2] > 0
  /\ runPhase = "running"
  /\ evPhase = "none"
  /\ nofEvents = nToProcess
  /\ nofEvents > 1
  /\ raEdep > 0
  /\ raEdep # printed[2]

\* C3: while a run is going on, the "event" ntuple holds exactly one row for
\* every event processed so far in the run and none for any other event,
\* whether or not the event had a hits collection, DOM hits or a primary
\* vertex.
C3_OneEventRowPerEvent ==
  (runPhase = "running") =>
     \A id \in 0..MaxEvents :
        Cardinality({ i \in DOMAIN eventNtuple : eventNtuple[i].EventID = id })
          = IF id < nofEvents THEN 1 ELSE 0

\* Two events of a run are summarised: one without DOM hits and primary
\* vertex, one with a DOM hit.
C3_Witness ==
  /\ runPhase = "running" /\ nofEvents = 2 /\ Len(eventNtuple) = 2
  /\ \E i \in DOMAIN eventNtuple :
        eventNtuple[i].DOMHitCount = 0 /\ eventNtuple[i].PrimaryPDG = 0
  /\ \E i \in DOMAIN eventNtuple : eventNtuple[i].DOMHitCount > 0

\* C4: once a run that opened the output file has ended, whatever its number
\* of events, its file operations end with Write and then CloseFile and no
\* file is left open.
C4_EveryRunWrittenAndClosed ==
  (runPhase = "idle" /\ fileLog # <<>>) =>
     ~fileOpen /\ fileLog = <<"OpenFile", "Write", "CloseFile">>

\* ------------------------------------------------------------ SpecMT
\* std::numeric_limits<G4double>::quiet_NaN(), the hit time of an event
\* without hits; times are never negative.
NaN == -1

\* std::isfinite on a hit time.
IsFinite(x) == x # NaN

\* What an event hands to the run action and to the Analysis singleton at its
\* end: the deposit, the DOM detection count and the earliest hit time (not
\* finite exactly when there is no hit).
MTEvents ==
  { [edep |-> d, nPE |-> n, tFirst |-> IF n = 0 THEN NaN ELSE 5] :
      d \in 1..MaxDep, n \in {0, 2} }

SpecMTInit ==
  /\ EvtIdle
  /\ MTIdle
  /\ RunIdle
  /\ GenIdle
  /\ pc = "track"
  /\ step = NULL
  /\ stepsDone = 0
  /\ fScoringVolume = NULL
  /\ fEdep = 0
  /\ fHitsCollection = NULL
  /\ sdReturn = FALSE
  /\ killed = {}
  /\ surfaceTable = domEfficiency

\* G4AutoLock on a mutex that ignores who holds it.
CanLock_NoMutex(m) == TRUE

\* Whether G4AutoLock lock(&fMutex) can proceed.
CanLock(m) == m = NULL

\* G4AccumulableManager::Merge overwriting the master's value.
Merged_Overwrite(master, worker) == worker

\* G4AccumulableManager::Merge on a worker: the worker's value is added to
\* the master's accumulable.
Merged(master, worker) == master + worker

\* BeginOfRunAction on the master thread, for a run of n events: the
\* accumulables of the master are reset, Analysis::BeginRun resets the summary
\* counters under the mutex and activates the run; the workers then start.
MasterBeginOfRunAction ==
  /\ \A th \in Threads : tpc[th] = "idle"
  /\ CanLock(fMutex)
  /\ tpc' = [th \in Threads |-> IF th = "master" THEN "waiting" ELSE "start"]
  /\ \E n \in 0..MaxEvents : eventsLeft' = n
  /\ accEdep' = [accEdep EXCEPT !["master"] = 0]
  /\ runEvents' = [runEvents EXCEPT !["master"] = 0]
  /\ fEventsProcessed' = 0
  /\ fSumNPE' = 0
  /\ fSumFirstHit' = 0
  /\ fEventsWithHits' = 0
  /\ fRunActive' = TRUE
  /\ mergeCount' = [w \in Workers |-> 0]
  /\ deposited' = 0
  /\ callsDone' = 0
  /\ sumNPEGiven' = 0
  /\ UNCHANGED <<cur, mtPrinted, fMutex, tmp>>
  /\ UNCHANGED stepVars
  /\ UNCHANGED runVars
  /\ UNCHANGED genVars
  /\ UNCHANGED evtVars

\* BeginOfRunAction on a worker: its own accumulables are reset and
\* Analysis::BeginRun activates the run without touching the counters.
WorkerBeginOfRunAction(w) ==
  /\ tpc[w] = "start"
  /\ tpc' = [tpc EXCEPT ![w] = "loop"]
  /\ accEdep' = [accEdep EXCEPT ![w] = 0]
  /\ runEvents' = [runEvents EXCEPT ![w] = 0]
  /\ fRunActive' = TRUE
  /\ UNCHANGED <<eventsLeft, cur, mtPrinted, fMutex, tmp, fEventsProcessed,
                 fSumNPE, fSumFirstHit, fEventsWithHits, mergeCount, deposited,
                 callsDone, sumNPEGiven>>
  /\ UNCHANGED stepVars
  /\ UNCHANGED runVars
  /\ UNCHANGED genVars
  /\ UNCHANGED evtVars

\* A worker takes the next event of the run and simulates it.
WorkerProcessEvent(w) ==
  /\ tpc[w] = "loop"
  /\ eventsLeft > 0
  /\ eventsLeft' = eventsLeft - 1
  /\ \E e \in MTEvents : cur' = [cur EXCEPT ![w] = e]
  /\ tpc' = [tpc EXCEPT ![w] = "event"]
  /\ UNCHANGED <<accEdep, runEvents, mtPrinted, fRunActive, fMutex, tmp,
                 fEventsProcessed, fSumNPE, fSumFirstHit, fEventsWithHits,
                 mergeCount, deposited, callsDone, sumNPEGiven>>
  /\ UNCHANGED stepVars
  /\ UNCHANGED runVars
  /\ UNCHANGED genVars
  /\ UNCHANGED evtVars

\* EndOfEventAction on a worker up to the lock in RecordEventSummary: the
\* deposit goes to the worker's accumulable; RecordEventSummary returns at
\* once when no run is active.
WorkerEndOfEventAction(w) ==
  /\ tpc[w] = "event"
  /\ accEdep' = [accEdep EXCEPT ![w] = AddEdep(@, cur[w].edep)]
  /\ deposited' = deposited + cur[w].edep
  /\ IF fRunActive
     THEN /\ tpc' = [tpc EXCEPT ![w] = "locking"]
          /\ UNCHANGED <<cur, runEvents>>
     ELSE /\ tpc' = [tpc EXCEPT ![w] = "loop"]
          /\ cur' = [cur EXCEPT ![w] = NULL]
          /\ runEvents' = [runEvents EXCEPT ![w] = @ + 1]
  /\ UNCHANGED <<eventsLeft, mtPrinted, fRunActive, fMutex, tmp,
                 fEventsProcessed, fSumNPE, fSumFirstHit, fEventsWithHits,
                 mergeCount, callsDone, sumNPEGiven>>
  /\ UNCHANGED stepVars
  /\ UNCHANGED runVars
  /\ UNCHANGED genVars
  /\ UNCHANGED evtVars

\* RecordEventSummary takes fMutex and reads the counters it is to update.
RecordEventSummaryLock(w) ==
  /\ tpc[w] = "locking"
  /\ CanLock(fMutex)
  /\ fMutex' = w
  /\ tmp' = [tmp EXCEPT ![w] = [processed |-> fEventsProcessed,
                                sumNPE |-> fSumNPE,
                                sumFirstHit |-> fSumFirstHit,
                                withHits |-> fEventsWithHits]]
  /\ tpc' = [tpc EXCEPT ![w] = "critical"]
  /\ UNCHANGED <<eventsLeft, cur, accEdep, runEvents, mtPrinted, fRunActive,
                 fEventsProcessed, fSumNPE, fSumFirstHit, fEventsWithHits,
                 mergeCount, deposited, callsDone, sumNPEGiven>>
  /\ UNCHANGED stepVars
  /\ UNCHANGED runVars
  /\ UNCHANGED genVars
  /\ UNCHANGED evtVars

\* RecordEventSummary stores the updated counters and releases fMutex; the
\* event is over and the worker's run counts it.
RecordEventSummaryUnlock(w) ==
  /\ tpc[w] = "critical"
  /\ fEventsProcessed' = tmp[w].processed + 1
  /\ fSumNPE' = tmp[w].sumNPE + cur[w].nPE
  /\ IF IsFinite(cur[w].tFirst)
     THEN /\ fSumFirstHit' = tmp[w].sumFirstHit + cur[w].tFirst
          /\ fEventsWithHits' = tmp[w].withHits + 1
     ELSE /\ fSumFirstHit' = tmp[w].sumFirstHit
          /\ fEventsWithHits' = tmp[w].withHits
  /\ fMutex' = NULL
  /\ tmp' = [tmp EXCEPT ![w] = NULL]
  /\ callsDone' = callsDone + 1
  /\ sumNPEGiven' = sumNPEGiven + cur[w].nPE
  /\ cur' = [cur EXCEPT ![w] = NULL]
  /\ runEvents' = [runEvents EXCEPT ![w] = @ + 1]
  /\ tpc' = [tpc EXCEPT ![w] = "loop"]
  /\ UNCHANGED <<eventsLeft, accEdep, mtPrinted, fRunActive, mergeCount,
                 deposited>>
  /\ UNCHANGED stepVars
  /\ UNCHANGED runVars
  /\ UNCHANGED genVars
  /\ UNCHANGED evtVars

\* The end of a worker's run, once no event is left: the toolkit adds the
\* worker's event count to the master's run, and EndOfRunAction returns at
\* once for a worker without events and otherwise merges the worker's
\* accumulables into the master's (Analysis::EndRun does nothing on a worker).
WorkerEndOfRunAction(w) ==
  /\ tpc[w] = "loop"
  /\ eventsLeft = 0
  /\ tpc' = [tpc EXCEPT ![w] = "idle"]
  /\ runEvents' = [runEvents EXCEPT !["master"] = @ + runEvents[w]]
  /\ IF runEvents[w] = 0
     THEN UNCHANGED <<accEdep, mergeCount>>
     ELSE /\ accEdep' = [accEdep EXCEPT
                           !["master"] = Merged(@, accEdep[w])]
          /\ mergeCount' = [mergeCount EXCEPT ![w] = @ + 1]
  /\ UNCHANGED <<eventsLeft, cur, mtPrinted, fRunActive, fMutex, tmp,
                 fEventsProcessed, fSumNPE, fSumFirstHit, fEventsWithHits,
                 deposited, callsDone, sumNPEGiven>>
  /\ UNCHANGED stepVars
  /\ UNCHANGED runVars
  /\ UNCHANGED genVars
  /\ UNCHANGED evtVars

\* EndOfRunAction on the master, after every worker has ended its run: it
\* returns at once for a run without events; otherwise Merge leaves the
\* master's accumulables as they are, the total and the number of events are
\* printed and Analysis::EndRun deactivates the run.
MasterEndOfRunAction ==
  /\ tpc["master"] = "waiting"
  /\ \A w \in Workers : tpc[w] = "idle"
  /\ tpc' = [tpc EXCEPT !["master"] = "idle"]
  /\ IF runEvents["master"] = 0
     THEN UNCHANGED <<mtPrinted, fRunActive>>
     ELSE /\ mtPrinted' = <<runEvents["master"], accEdep["master"]>>
          /\ fRunActive' = FALSE
  /\ UNCHANGED <<eventsLeft, cur, accEdep, runEvents, fMutex, tmp,
                 fEventsProcessed, fSumNPE, fSumFirstHit, fEventsWithHits,
                 mergeCount, deposited, callsDone, sumNPEGiven>>
  /\ UNCHANGED stepVars
  /\ UNCHANGED runVars
  /\ UNCHANGED genVars
  /\ UNCHANGED evtVars

MTNext ==
  \/ MasterBeginOfRunAction
  \/ \E w \in Workers : WorkerBeginOfRunAction(w)
  \/ \E w \in Workers : WorkerProcessEvent(w)
  \/ \E w \in Workers : WorkerEndOfEventAction(w)
  \/ \E w \in Workers : RecordEventSummaryLock(w)
  \/ \E w \in Workers : RecordEventSummaryUnlock(w)
  \/ \E w \in Workers : WorkerEndOfRunAction(w)
  \/ MasterEndOfRunAction

SpecMT == SpecMTInit /\ [][MTNext]_vars

\* C5: the summary counters of the Analysis singleton are written only by
\* the thread holding fMutex, and whenever no RecordEventSummary call is
\* between its read and its write of the counters, fEventsProcessed is the
\* number of calls completed in the run, fSumNPE is the sum of their nPE
\* arguments and fEventsWithHits does not exceed fEventsProcessed.
C5_NoLostSummaryUpdate ==
  /\ \A w \in Workers : tpc[w] = "critical" => fMutex = w
  /\ (\A w \in Workers : tpc[w] # "critical") =>
        /\ fEventsProcessed = callsDone
        /\ fSumNPE = sumNPEGiven
        /\ fEventsWithHits <= fEventsProcessed

\* Both workers have completed one RecordEventSummary call each, one for an
\* event with photoelectrons and one for an event without.
C5_Witness ==
  /\ \A w \in Workers : tpc[w] = "loop" /\ runEvents[w] = 1
  /\ callsDone = 2
  /\ fEventsProcessed = 2
  /\ fSumNPE = 2
  /\ fEventsWithHits = 1

\* The master's EndOfRunAction has computed the average of the current run.
MasterDone == tpc["master"] = "idle" /\ runEvents["master"] > 0

\* C6 as stated: the total the master uses is the sum of the run's deposits
\* and every worker, with or without events, has merged exactly once.
C6_EveryWorkerMergedOnce ==
  MasterDone =>
     /\ mtPrinted = <<runEvents["master"], deposited>>
     /\ \A w \in Workers : mergeCount[w] = 1

\* C6: the total from which the master's EndOfRunAction computes the average
\* is the sum of all deposits passed to AddEdep on the workers in that run;
\* a worker that processed at least one event has merged exactly once and a
\* worker that processed none has not merged (its accumulation is zero).
C6_TotalIsSumOfDeposits ==
  MasterDone =>
     /\ mtPrinted = <<runEvents["master"], deposited>>
     /\ \A w \in Workers : mergeCount[w] = IF runEvents[w] > 0 THEN 1 ELSE 0

\* A run ended in which one worker merged its deposits and the other, given
\* no event, did not.
C6_Witness ==
  /\ MasterDone
  /\ deposited > 0
  /\ \E w, v \in Workers :
        /\ runEvents[w] = 0 /\ mergeCount[w] = 0
        /\ runEvents[v] > 0 /\ mergeCount[v] = 1

\* ------------------------------------------------------------ SpecGen
\* Half height of the world box, in mm.
worldHalfZ == 3000

\* The value of a unit name in the toolkit's internal units (MeV, mm).
ValueOf(unit) ==
  CASE unit = "GeV" -> 1000
    [] unit = "MeV" -> 1
    [] unit = "m" -> 1000
    [] unit = "cm" -> 10
    [] unit = "mm" -> 1

\* The parameter string of a command with unit: the default unit is used
\* when the user gave none.
WithDefaultUnit(arg, default) ==
  IF arg.unit = "" THEN [arg EXCEPT !.unit = default] ELSE arg

\* G4UIcmdWithADoubleAndUnit::GetNewDoubleValue.
GetNewDoubleValue(arg) == arg.value * ValueOf(arg.unit)

\* GetNew3VectorValue of a command with unit.
GetNew3VectorValue(arg) ==
  [i \in 1..3 |-> arg.value[i] * ValueOf(arg.unit)]

\* The spellings of a boolean parameter used here, in upper case.
ToUpper(text) ==
  CASE text = "true" -> "TRUE"
    [] text = "Yes" -> "YES"
    [] OTHER -> text

\* A conversion that knows the word TRUE only.
ConvertToBool_OnlyTrue(text) == ToUpper(text) = "TRUE"

\* G4UIcmdWithABool::GetNewBoolValue.
ConvertToBool(text) == ToUpper(text) \in {"Y", "YES", "1", "T", "TRUE"}

Abs(x) == IF x < 0 THEN -x ELSE x

RECURSIVE GCD(_, _)
GCD(a, b) == IF b = 0 THEN a ELSE GCD(b, a % b)

\* A normalisation that returns its argument.
Unit3_Identity(d) == d

\* Hep3Vector::unit(): the vector of the same direction with the shortest
\* integer components stands for the unit vector; a zero vector is returned
\* as it is.
Unit3(d) ==
  LET g == GCD(GCD(Abs(d[1]), Abs(d[2])), Abs(d[3]))
  IN  IF g = 0 THEN d ELSE [i \in 1..3 |-> d[i] \div g]

\* The arguments the commands are issued with.
UseCRYArgs ==
  { [text |-> "true", means |-> TRUE], [text |-> "Yes", means |-> TRUE],
    [text |-> "0", means |-> FALSE] }

EnergyArgs == { [value |-> 500, unit |-> "MeV"], [value |-> 2, unit |-> ""] }

DirectionArgs == { <<0, 0, -2>>, <<2, 0, 2>>, <<0, 0, 0>> }

PositionArgs ==
  { [value |-> <<0, 0, 50>>, unit |-> "mm"],
    [value |-> <<0, 0, 2>>, unit |-> ""] }

\* The setup files and what happens when CRY is set up from each.
SetupFiles == {"cry_setup.file", "missing.file", "garbled.file", "huge.file"}

\* "throws": reading the file into a string throws a std::exception out of
\* the constructor of the CRY generator.
FileStatus(file) ==
  CASE file = "cry_setup.file" -> "ok"
    [] file = "missing.file" -> "unopenable"
    [] file = "garbled.file" -> "rejected"
    [] file = "huge.file" -> "throws"

\* What CRY can return for an event: particles with a PDG code the particle
\* table knows or does not know, a kinetic energy and a position.
CRYShowers ==
  { <<>>, <<[known |-> TRUE, pdg |-> 13, ke |-> 900, x |-> 1]>>,
    <<[known |-> TRUE, pdg |-> 13, ke |-> 900, x |-> 1],
      [known |-> FALSE, pdg |-> 0, ke |-> 5, x |-> 2]>>,
    <<[known |-> TRUE, pdg |-> 22, ke |-> 300, x |-> 2],
      [known |-> TRUE, pdg |-> 13, ke |-> 900, x |-> 1]>> }

G4Exception(code, severity, message) ==
  [code |-> code, severity |-> severity, message |-> message]

HasFatal(log) ==
  \E i \in DOMAIN log : log[i].severity = "FatalException"

\* The outcomes of raising the exceptions in log: a fatal one aborts the
\* program unless the abortion is suppressed.
AbortOutcomes(log) == IF HasFatal(log) THEN BOOLEAN ELSE {FALSE}

\* A set-up that reports success whatever happened.
SetupInitialized_Always(status) == TRUE

\* fInitialized after the constructor ran SetupCRY on the file.
SetupInitialized(status) == status = "ok"

\* The exceptions SetupCRY raises.
SetupExceptions(status) ==
  CASE status \in {"ok", "throws"} -> <<>>
    [] status = "unopenable" ->
         <<G4Exception("CRYSetup001", "FatalException",
                       "Failed to open CRY setup file")>>
    [] status = "rejected" ->
         <<G4Exception("CRYSetup002", "FatalException",
                       "Failed to initialize CRY generator")>>

\* WaterTankCRYPrimaryGenerator::GeneratePrimaryVertex: the vertices it adds
\* to the event and the exceptions it raises.
CRYVertices(initialized, shower) ==
  IF ~initialized THEN <<>>
  ELSE LET known == SelectSeq(shower, LAMBDA q : q.known)
       IN  [i \in 1..Len(known) |->
              [by |-> "cry", pdg |-> known[i].pdg, energy |-> known[i].ke,
               direction |-> <<0, 0, -1>>,
               position |-> <<known[i].x, 0, 0>>]]

CRYGenerateExceptions(initialized) ==
  IF initialized THEN <<>>
  ELSE <<G4Exception("CRYGenerate001", "FatalException",
                     "CRY generator not initialized. Call SetupCRY() first.")>>

\* GenerateSingleMuon: whether the world box is known after the look-up, the
\* warning raised when it is not, and the vertex the gun shoots.
EnvelopeFound == fEnvelopeBox \/ world = "box"

MuonWarnings ==
  IF ~fUseCustomPosition /\ ~EnvelopeFound
  THEN <<G4Exception("MyCode0002", "JustWarning",
                     "The gun will be placed at the center.")>>
  ELSE <<>>

MuonPosition ==
  IF fUseCustomPosition THEN fMuonPosition
  ELSE LET envSizeZ == IF EnvelopeFound THEN worldHalfZ * 2 ELSE 0
       IN  <<0, 0, 1 - (envSizeZ \div 2)>>

MuonVertex ==
  [by |-> "gun", pdg |-> 13, energy |-> fMuonEnergy,
   direction |-> Unit3(fMuonDirection), position |-> MuonPosition]

GenInit ==
  /\ EvtIdle
  /\ RunIdle
  /\ MTIdle
  /\ GenConstructed
  /\ world \in Worlds
  /\ pc = "track"
  /\ step = NULL
  /\ stepsDone = 0
  /\ fScoringVolume = NULL
  /\ fEdep = 0
  /\ fHitsCollection = NULL
  /\ sdReturn = FALSE
  /\ killed = {}
  /\ surfaceTable = domEfficiency

\* fCRYGenerator after InitializeCRY: the catch block leaves nullptr.
Constructed(status) == IF status = "throws" THEN "nullptr" ELSE "object"

\* The exceptions InitializeCRY raises: those of SetupCRY, and a warning
\* from its catch block.
InitializeExceptions(status) ==
  SetupExceptions(status)
    \o (IF status = "throws"
        THEN <<G4Exception("CRYInit001", "JustWarning",
                           "Failed to initialize CRY generator")>>
        ELSE <<>>)

\* InitializeCRY: a new CRY generator is constructed from the setup file;
\* log holds the exceptions the operation has raised before.
InitializeCRY(file, log) ==
  LET status == FileStatus(file)
  IN  /\ fCRYGenerator' = Constructed(status)
      /\ fInitialized' = SetupInitialized(status)
      /\ setupStatus' = status
      /\ setupRan' = TRUE
      /\ raised' = log \o InitializeExceptions(status)
      /\ aborted' \in AbortOutcomes(InitializeExceptions(status))

\* The operation leaves the CRY generator alone and raises nothing.
NoCRYChange ==
  /\ UNCHANGED <<fCRYGenerator, fInitialized, setupStatus>>
  /\ setupRan' = FALSE
  /\ raised' = <<>>
  /\ aborted' = FALSE

\* No event is being processed: the commands of the generator are available
\* in the PreInit and Idle states only.
NoEvent == lastOp \in {"none", "command"}

\* /watertank/generator/useCRY <bool>: SetNewValue converts the argument and
\* calls SetUseCRY.
SetUseCRY ==
  /\ ~aborted
  /\ NoEvent
  /\ lastOp' = "command"
  /\ \E arg \in UseCRYArgs :
       /\ cmdUseCRY' = <<arg>>
       /\ IF ConvertToBool(arg.text)
          THEN /\ fMode' = "CRYShower"
               /\ IF fCRYGenerator = "nullptr"
                  THEN InitializeCRY(fCRYSetupFile, <<>>)
                  ELSE NoCRYChange
          ELSE /\ fMode' = "SingleMuon"
               /\ NoCRYChange
  /\ UNCHANGED <<fMuonEnergy, fMuonDirection, fMuonPosition,
                 fUseCustomPosition, fEnvelopeBox, fCRYSetupFile, world,
                 vertices, lastPath, cmdEnergy, cmdDirection, cmdPosition>>
  /\ UNCHANGED <<stepVars, runVars, mtVars, evtVars>>

\* /watertank/generator/crySetupFile <file>: an existing CRY generator is
\* deleted, and constructed anew when the mode is CRYShower.
SetCRYSetupFile ==
  /\ ~aborted
  /\ NoEvent
  /\ lastOp' = "command"
  /\ \E file \in SetupFiles :
       /\ fCRYSetupFile' = file
       /\ IF fCRYGenerator = "object"
          THEN IF fMode = "CRYShower"
               THEN InitializeCRY(file, <<>>)
               ELSE /\ fCRYGenerator' = "nullptr"
                    /\ fInitialized' = FALSE
                    /\ setupStatus' = "none"
                    /\ setupRan' = FALSE
                    /\ raised' = <<>>
                    /\ aborted' = FALSE
          ELSE NoCRYChange
  /\ UNCHANGED <<fMode, fMuonEnergy, fMuonDirection, fMuonPosition,
                 fUseCustomPosition, fEnvelopeBox, world, vertices, lastPath,
                 cmdUseCRY, cmdEnergy, cmdDirection, cmdPosition>>
  /\ UNCHANGED <<stepVars, runVars, mtVars, evtVars>>

\* /watertank/generator/muon/energy <value> [unit].
SetMuonEnergy ==
  /\ ~aborted
  /\ NoEvent
  /\ lastOp' = "command"
  /\ \E arg \in EnergyArgs :
       /\ cmdEnergy' = <<arg>>
       /\ fMuonEnergy' = GetNewDoubleValue(WithDefaultUnit(arg, "GeV"))
  /\ NoCRYChange
  /\ UNCHANGED <<fMode, fMuonDirection, fMuonPosition, fUseCustomPosition,
                 fEnvelopeBox, fCRYSetupFile, world, vertices, lastPath,
                 cmdUseCRY, cmdDirection, cmdPosition>>
  /\ UNCHANGED <<stepVars, runVars, mtVars, evtVars>>

\* /watertank/generator/muon/direction <dx> <dy> <dz>.
SetMuonDirection ==
  /\ ~aborted
  /\ NoEvent
  /\ lastOp' = "command"
  /\ \E dir \in DirectionArgs :
       /\ cmdDirection' = <<dir>>
       /\ fMuonDirection' = Unit3(dir)
  /\ NoCRYChange
  /\ UNCHANGED <<fMode, fMuonEnergy, fMuonPosition, fUseCustomPosition,
                 fEnvelopeBox, fCRYSetupFile, world, vertices, lastPath,
                 cmdUseCRY, cmdEnergy, cmdPosition>>
  /\ UNCHANGED <<stepVars, runVars, mtVars, evtVars>>

\* /watertank/generator/muon/position <x> <y> <z> [unit].
SetMuonPosition ==
  /\ ~aborted
  /\ NoEvent
  /\ lastOp' = "command"
  /\ \E arg \in PositionArgs :
       /\ cmdPosition' = <<arg>>
       /\ fMuonPosition' = GetNew3VectorValue(WithDefaultUnit(arg, "cm"))
  /\ fUseCustomPosition' = TRUE
  /\ NoCRYChange
  /\ UNCHANGED <<fMode, fMuonEnergy, fMuonDirection, fEnvelopeBox,
                 fCRYSetupFile, world, vertices, lastPath, cmdUseCRY,
                 cmdEnergy, cmdDirection>>
  /\ UNCHANGED <<stepVars, runVars, mtVars, evtVars>>

\* A generator action that asks only whether the CRY generator exists.
CRYReady_ExistsOnly(generator, initialized) == generator = "object"

\* fCRYGenerator && fCRYGenerator->IsInitialized()
CRYReady(generator, initialized) == generator = "object" /\ initialized

\* GenerateCRYShower for a new event: the CRY generator is constructed when
\* there is none; an initialised generator adds the vertices of a shower,
\* and otherwise a warning is raised and GenerateSingleMuon runs.
GenerateCRYShower ==
  LET needInit == fCRYGenerator = "nullptr"
      status == IF needInit THEN FileStatus(fCRYSetupFile) ELSE setupStatus
      initialized == IF needInit THEN SetupInitialized(status)
                     ELSE fInitialized
      log == IF needInit THEN InitializeExceptions(status) ELSE <<>>
      generator == IF needInit THEN Constructed(status) ELSE fCRYGenerator
  IN  /\ fCRYGenerator' = generator
      /\ fInitialized' = initialized
      /\ setupStatus' = status
      /\ setupRan' = needInit
      /\ \E abort \in AbortOutcomes(log) :
           /\ aborted' = abort
           /\ IF abort
              THEN /\ vertices' = <<>>
                   /\ raised' = log
                   /\ UNCHANGED fEnvelopeBox
              ELSE IF CRYReady(generator, initialized)
              THEN /\ \E shower \in CRYShowers :
                        vertices' = CRYVertices(initialized, shower)
                   /\ raised' = log \o CRYGenerateExceptions(initialized)
                   /\ UNCHANGED fEnvelopeBox
              ELSE /\ vertices' = <<MuonVertex>>
                   /\ raised' = log
                        \o <<G4Exception("CRYMode001", "JustWarning",
                               "CRY generator not properly initialized.")>>
                        \o MuonWarnings
                   /\ fEnvelopeBox' = IF fUseCustomPosition THEN fEnvelopeBox
                                      ELSE EnvelopeFound

\* GeneratePrimaries for a new event.
GeneratePrimaries ==
  /\ ~aborted
  /\ NoEvent
  /\ lastOp' = "GeneratePrimaries"
  /\ lastPath' = fMode
  /\ IF fMode = "SingleMuon"
     THEN /\ vertices' = <<MuonVertex>>
          /\ raised' = MuonWarnings
          /\ fEnvelopeBox' = IF fUseCustomPosition THEN fEnvelopeBox
                             ELSE EnvelopeFound
          /\ setupRan' = FALSE
          /\ aborted' = FALSE
          /\ UNCHANGED <<fCRYGenerator, fInitialized, setupStatus>>
     ELSE GenerateCRYShower
  /\ UNCHANGED <<fMode, fMuonEnergy, fMuonDirection, fMuonPosition,
                 fUseCustomPosition, fCRYSetupFile, world, cmdUseCRY,
                 cmdEnergy, cmdDirection, cmdPosition>>
  /\ UNCHANGED <<stepVars, runVars, mtVars, evtVars>>

\* WaterTankCRYPrimaryGenerator::GeneratePrimaryVertex called on the existing
\* CRY generator for a new event, whatever its state.
CRYGeneratePrimaryVertex ==
  /\ ~aborted
  /\ NoEvent
  /\ fCRYGenerator = "object"
  /\ lastOp' = "CRYGeneratePrimaryVertex"
  /\ \E shower \in CRYShowers :
       vertices' = CRYVertices(fInitialized, shower)
  /\ raised' = CRYGenerateExceptions(fInitialized)
  /\ aborted' \in AbortOutcomes(CRYGenerateExceptions(fInitialized))
  /\ setupRan' = FALSE
  /\ UNCHANGED <<fMode, fMuonEnergy, fMuonDirection, fMuonPosition,
                 fUseCustomPosition, fEnvelopeBox, fCRYSetupFile,
                 fCRYGenerator, fInitialized, setupStatus, world, lastPath,
                 cmdUseCRY, cmdEnergy, cmdDirection, cmdPosition>>
  /\ UNCHANGED <<stepVars, runVars, mtVars, evtVars>>

\* The event is over and deleted.
EventDone ==
  /\ ~aborted
  /\ ~NoEvent
  /\ lastOp' = "none"
  /\ lastPath' = "none"
  /\ vertices' = <<>>
  /\ raised' = <<>>
  /\ setupRan' = FALSE
  /\ UNCHANGED <<fMode, fMuonEnergy, fMuonDirection, fMuonPosition,
                 fUseCustomPosition, fEnvelopeBox, fCRYSetupFile,
                 fCRYGenerator, fInitialized, setupStatus, world, aborted,
                 cmdUseCRY, cmdEnergy, cmdDirection, cmdPosition>>
  /\ UNCHANGED <<stepVars, runVars, mtVars, evtVars>>

GenNext ==
  \/ SetUseCRY
  \/ SetCRYSetupFile
  \/ SetMuonEnergy
  \/ SetMuonDirection
  \/ SetMuonPosition
  \/ GeneratePrimaries
  \/ CRYGeneratePrimaryVertex
  \/ EventDone

SpecGen == GenInit /\ [][GenNext]_vars

\* ----------------------------------------------------------- SpecPrim
\* Events of either generator, each followed to the primary columns of its
\* summary row. DetectionCounts are the numbers of DOM hits an event may end
\* with.
DetectionCounts == {0, 3}

\* EndOfEventAction for the event GeneratePrimaries filled: the primary
\* columns of the row it adds to the "event" ntuple.
PrimEndOfEventAction ==
  /\ ~aborted
  /\ lastOp = "GeneratePrimaries"
  /\ lastOp' = "EndOfEventAction"
  /\ \E count \in DetectionCounts :
       eventNtuple' = <<PrimaryColumns(vertices, count)
                          @@ [DOMHitCount |-> count]>>
  /\ UNCHANGED <<fMode, fMuonEnergy, fMuonDirection, fMuonPosition,
                 fUseCustomPosition, fEnvelopeBox, fCRYSetupFile,
                 fCRYGenerator, fInitialized, setupStatus, world, vertices,
                 aborted, lastPath, raised, setupRan, cmdUseCRY, cmdEnergy,
                 cmdDirection, cmdPosition>>
  /\ UNCHANGED <<runPhase, nToProcess, nofEvents, evPhase, hasHCE,
                 hasPrimary, fDOMHCID, fDetectionCount, raEdep, raEdep2,
                 printed, fileOpen, fileLog, domhitsNtuple>>
  /\ UNCHANGED <<stepVars, mtVars, evtVars>>

\* The event is deleted after its EndOfEventAction.
PrimEventDone == lastOp = "EndOfEventAction" /\ EventDone

PrimNext ==
  \/ SetUseCRY
  \/ SetCRYSetupFile
  \/ SetMuonEnergy
  \/ SetMuonDirection
  \/ SetMuonPosition
  \/ GeneratePrimaries
  \/ PrimEndOfEventAction
  \/ PrimEventDone

SpecPrim == GenInit /\ [][PrimNext]_vars

\* The event's summary row was just written.
RowWritten == lastOp = "EndOfEventAction" /\ Len(eventNtuple) = 1

\* C24: the primary columns of an event row are those of the first particle
\* of the event's first primary vertex, also when a CRY shower added several
\* vertices, and they are all zero, with a photon yield of 0, when the event
\* has no primary vertex.
C24_PrimaryColumnsOfFirstVertex ==
  RowWritten =>
    LET row == eventNtuple[1]
    IN  IF vertices = <<>>
        THEN /\ row.PrimaryPDG = 0
             /\ row.PrimaryEnergy = 0
             /\ row.PrimaryPos = <<0, 0, 0>>
             /\ row.PrimaryDir = <<0, 0, 0>>
             /\ row.PhotonYield = 0
        ELSE /\ row.PrimaryPDG = vertices[1].pdg
             /\ row.PrimaryEnergy = vertices[1].energy
             /\ row.PrimaryPos = vertices[1].position
             /\ row.PrimaryDir = vertices[1].direction

\* A CRY shower added two different vertices and the row was written.
C24_Witness ==
  /\ RowWritten
  /\ Len(vertices) = 2
  /\ vertices[1].by = "cry"
  /\ vertices[1].pdg # vertices[2].pdg
  /\ vertices[1].energy # vertices[2].energy
  /\ eventNtuple[1].DOMHitCount > 0

\* WaterTankPrimaryGeneratorAction::GetUseCRY.
GetUseCRY == fMode = "CRYShower"

\* SetupCRY could not open the setup file of the existing CRY generator, or
\* CRY rejected its contents.
SetupFailed ==
  fCRYGenerator = "object" /\ setupStatus \in {"unopenable", "rejected"}

\* C7: when SetupCRY cannot open the setup file or CRY rejects its contents,
\* a FatalException with a message is raised, the generator is not
\* initialised afterwards, and neither a later GeneratePrimaryVertex on it
\* nor an event of the generator action gets a primary vertex from it.
C7_FailedSetupIsFatalAndLeavesUninitialized ==
  /\ (setupRan /\ SetupFailed) =>
        \E i \in DOMAIN raised :
           /\ raised[i].severity = "FatalException"
           /\ raised[i].message # ""
  /\ SetupFailed => ~fInitialized
  /\ SetupFailed => \A i \in DOMAIN vertices : vertices[i].by # "cry"
  /\ (SetupFailed /\ lastOp = "CRYGeneratePrimaryVertex") => vertices = <<>>

\* CRY rejected the setup, the program went on, and GeneratePrimaryVertex was
\* then called on the generator.
C7_Witness ==
  /\ lastOp = "CRYGeneratePrimaryVertex"
  /\ setupStatus = "rejected"
  /\ fCRYGenerator = "object"
  /\ ~fInitialized
  /\ vertices = <<>>
  /\ raised # <<>>

\* GeneratePrimaries ran in CRY mode and, after its attempt to construct a
\* missing CRY generator, there is none or it is not initialised.
CRYUnavailable ==
  /\ lastOp = "GeneratePrimaries"
  /\ lastPath = "CRYShower"
  /\ (fCRYGenerator = "nullptr" \/ ~fInitialized)

\* The event was generated by the single-muon path after the warning.
FellBack ==
  /\ \E i \in DOMAIN raised :
        raised[i].code = "CRYMode001" /\ raised[i].severity = "JustWarning"
  /\ Len(vertices) = 1
  /\ vertices[1].by = "gun"

\* C18 as claimed: in CRY mode, whenever the CRY generator does not exist
\* after the lazy initialisation or is not initialised when GeneratePrimaries
\* runs, a JustWarning is raised and the single-muon path generates the
\* event: the event gets exactly one primary vertex and the program goes on.
C18_UnavailableCRYAlwaysFallsBack ==
  CRYUnavailable => (FellBack /\ ~aborted)

\* C18 as amended: then either the lazy initialisation raised a fatal
\* exception that aborted the program before any vertex was made, or a
\* JustWarning is raised and the single-muon path gives the event exactly
\* one primary vertex.
C18_UnavailableCRYFallsBackUnlessAborted ==
  CRYUnavailable =>
     IF aborted
     THEN setupRan /\ HasFatal(raised) /\ vertices = <<>>
     ELSE FellBack

\* The lazy initialisation left no CRY generator, and the event was
\* generated by the single-muon path.
C18_Witness ==
  /\ CRYUnavailable
  /\ setupRan
  /\ fCRYGenerator = "nullptr"
  /\ ~aborted
  /\ FellBack

\* GenerateSingleMuon ran in single-muon mode without custom position and
\* without a world box.
WorldFallback ==
  /\ lastOp = "GeneratePrimaries"
  /\ lastPath = "SingleMuon"
  /\ ~fUseCustomPosition
  /\ world # "box"

\* C8: when the World volume is missing or no box, single-muon generation
\* without custom position raises a JustWarning and nothing fatal, generates
\* exactly one primary vertex, and places it at the centre of the world.
C8_FallbackPlacesGunAtCentre ==
  WorldFallback =>
     /\ \E i \in DOMAIN raised :
           raised[i].code = "MyCode0002" /\ raised[i].severity = "JustWarning"
     /\ ~HasFatal(raised)
     /\ Len(vertices) = 1
     /\ vertices[1].position = <<0, 0, 0>>

\* C9: GetUseCRY() is the meaning of the argument of the latest useCRY
\* command, false when none was issued, and GeneratePrimaries takes the CRY
\* shower branch exactly when GetUseCRY() is true.
C9_ModeFollowsLatestUseCRY ==
  /\ GetUseCRY = (IF cmdUseCRY = <<>> THEN FALSE ELSE cmdUseCRY[1].means)
  /\ (lastOp = "GeneratePrimaries") => (lastPath = "CRYShower" <=> GetUseCRY)

\* An event was generated on the CRY branch after "useCRY Yes".
C9_Witness ==
  /\ lastOp = "GeneratePrimaries"
  /\ lastPath = "CRYShower"
  /\ cmdUseCRY # <<>>
  /\ cmdUseCRY[1].text = "Yes"
  /\ GetUseCRY

\* r stands for the unit vector of d: parallel to d, of the same sense and
\* with no common factor left; for a zero d, r is zero.
IsUnitOf(r, d) ==
  IF d = <<0, 0, 0>> THEN r = d
  ELSE /\ r[1] * d[2] = r[2] * d[1]
       /\ r[2] * d[3] = r[3] * d[2]
       /\ r[1] * d[3] = r[3] * d[1]
       /\ r[1] * d[1] + r[2] * d[2] + r[3] * d[3] > 0
       /\ GCD(GCD(Abs(r[1]), Abs(r[2])), Abs(r[3])) = 1

\* The vertex has the energy, the normalised direction and, when a
\* position was commanded, the position of the latest muon commands, and the
\* default energy and direction where none was issued.
FollowsCommands(v) ==
  /\ v.energy = IF cmdEnergy = <<>> THEN 4000
                ELSE IF cmdEnergy[1].unit = "MeV" THEN cmdEnergy[1].value
                ELSE cmdEnergy[1].value * 1000
  /\ IsUnitOf(v.direction,
              IF cmdDirection = <<>> THEN <<0, 0, 1>> ELSE cmdDirection[1])
  /\ cmdPosition # <<>> =>
        v.position = IF cmdPosition[1].unit = "mm" THEN cmdPosition[1].value
                     ELSE [k \in 1..3 |-> cmdPosition[1].value[k] * 10]

====
